---- MODULE Spec2Model ----
(***************************************************************************)
(* Model of the API client gateway RotkehlchenApi                          *)
(* (frontend/app/src/services/rotkehlchen-api.ts): one transport (axios    *)
(* instance) and one cancellation source at a time, the request            *)
(* interceptor that attaches the active token, the per-endpoint status     *)
(* validators and response handlers, and the asynchronous task protocol.   *)
(*                                                                         *)
(* Scheduling is the browser's event loop.  A facade call runs             *)
(* synchronously up to the transport call and leaves the request "queued"; *)
(* the request interceptor runs in a microtask and puts it "inflight"; a   *)
(* response or network failure arrives in a later task and the rest of the *)
(* operation runs to its end in the microtasks of that task; the caller's  *)
(* reaction to a settled promise runs in the same microtask drain.         *)
(***************************************************************************)
EXTENDS Integers, Sequences, FiniteSets, Bags, TLC

(* ---- bounds ---- *)
MaxInFlight == 3     \* requests that exist at the same time
MaxSources  == 2     \* cancellation sources created after the first one
MaxSetups   == 1     \* setup(serverUrl) calls next to the session operations
MaxSetupSeq == 2     \* setup(serverUrl) calls in a row
MaxTasks    == 1     \* task ids the backend hands out
MaxKeyLen   == 2     \* characters of a mapping key given to the key-casing transformer

TaskIds == 1..MaxTasks

(* ---- JSON values: every value is a record, so any two can be compared ---- *)
Null  == [null |-> TRUE]
True  == [bool |-> TRUE]
False == [bool |-> FALSE]
NoValue == [none |-> TRUE]
Number(n) == [number |-> n]

Envelope(result, message) == [result |-> result, message |-> message]

\* JS truthiness of a JSON value: null, false, 0 and "" are falsy, every other
\* value (objects and arrays included) is truthy; JSON carries no NaN
Truthy(v) == v \notin {Null, False, Number(0), [string |-> ""]}

(* wire payloads (snake_case keys, as the backend sends them) *)
WirePendingTask(id) == [task_id |-> id]
WireSyncConflict    == [local_size |-> 1, remote_size |-> 2]
WireAccount         == [premium |-> True, exchanges |-> <<>>]
WireTaskStatus(p, c) == [pending |-> p, completed |-> c]
WireTaskResult(outcome) == [outcome |-> outcome]
WireEth2Stats       == [entries |-> <<>>, entries_found |-> 0]
WireKrakenEvents    == [events |-> <<>>, entries_found |-> 0]
WireNetValue        == [times |-> <<>>, data |-> <<>>]
WireBtcAccounts     == [standalone |-> <<>>, xpubs |-> <<>>]
WireUsers           == [alice |-> "loggedin", bob |-> "loggedout"]

\* the body of a binary download (a zip, a snapshot), which is no envelope
Blob == [blob |-> TRUE]

(* ---- key casing of the response transformer ---- *)
CamelKey(k) ==
  CASE k = "task_id"     -> "taskId"
    [] k = "local_size"  -> "localSize"
    [] k = "remote_size" -> "remoteSize"
    [] k = "entries_found" -> "entriesFound"
    [] OTHER             -> k

CamelCase(v) ==
  [ck \in {CamelKey(k) : k \in DOMAIN v} |-> v[CHOOSE k \in DOMAIN v : CamelKey(k) = ck]]

\* transformResponse: basicAxiosTransformer; the envelope keys are already camelCase
basicAxiosTransformer(data) == Envelope(CamelCase(data.result), data.message)

\* axios' default transformResponse: JSON parsing only
defaultTransformResponse(data) == data

(* ---- the key-casing transformer, on keys spelled out as characters ---- *)
(* The payloads above use whole strings as keys, which cannot be taken apart, and  *)
(* convert the keys they have by table.  Here a key is the sequence of its         *)
(* characters and a value is [object |-> key -> value], [array |-> values],        *)
(* [tagged |-> ...] (a value object the transformer does not descend into) or a    *)
(* primitive, so that the conversion is computed character by character.           *)
Lower == {"a", "b"}

Upper == {"A", "B"}

Digits == {"1"}

ToLower(c) == CASE c = "A" -> "a" [] c = "B" -> "b" [] OTHER -> c

ToUpper(c) == CASE c = "a" -> "A" [] c = "b" -> "B" [] OTHER -> c

\* camelCase to snake_case: an upper-case letter becomes "_" and its lower case
RECURSIVE toWireKey(_)
toWireKey(k) ==
  IF k = <<>> THEN <<>>
  ELSE (IF Head(k) \in Upper THEN <<"_", ToLower(Head(k))>> ELSE <<Head(k)>>)
       \o toWireKey(Tail(k))

\* faulty variant of fromWireKey: the "_" is dropped and the case is kept
RECURSIVE fromWireKey_KeepCase(_)
fromWireKey_KeepCase(k) ==
  IF k = <<>> THEN <<>>
  ELSE IF Head(k) = "_" /\ Len(k) > 1
         THEN <<k[2]>> \o fromWireKey_KeepCase(Tail(Tail(k)))
         ELSE <<Head(k)>> \o fromWireKey_KeepCase(Tail(k))

\* snake_case to camelCase: "_" and the character after it become its upper case
RECURSIVE fromWireKey(_)
fromWireKey(k) ==
  IF k = <<>> THEN <<>>
  ELSE IF Head(k) = "_" /\ Len(k) > 1
         THEN <<ToUpper(k[2])>> \o fromWireKey(Tail(Tail(k)))
         ELSE <<Head(k)>> \o fromWireKey(Tail(k))

Object(f) == [object |-> f]

Array(s) == [array |-> s]

Tagged(f) == [tagged |-> f]

String(s) == [string |-> s]

IsObject(v) == "object" \in DOMAIN v

\* the text of a sequence of characters
RECURSIVE Text(_)
Text(chars) == IF chars = <<>> THEN "" ELSE Head(chars) \o Text(Tail(chars))

IsArray(v) == "array" \in DOMAIN v

\* a string that spells a number, and the number it spells
IsNumericString(v) == "string" \in DOMAIN v /\ v.string \in {"1", "2"}

ToNumber(v) == IF v.string = "1" THEN Number(1) ELSE Number(2)

\* the numericKeys argument: null (no coercion) or a list of keys
NoCoercion == [coerce |-> FALSE, keys |-> {}]

NumericKeys(S) == [coerce |-> TRUE, keys |-> S]

\* toWire(value): every mapping key, at every depth and inside arrays, goes from
\* camelCase to snake_case; primitives and tagged value objects are left alone
RECURSIVE toWire(_)
toWire(v) ==
  IF IsObject(v)
    THEN Object([wk \in {toWireKey(k) : k \in DOMAIN v.object} |->
                   toWire(v.object[CHOOSE k \in DOMAIN v.object : toWireKey(k) = wk])])
  ELSE IF IsArray(v)
    THEN Array([i \in DOMAIN v.array |-> toWire(v.array[i])])
  ELSE v

\* fromWire(value, numericKeys): the inverse on keys; a numeric string under a key
\* of the allow-list becomes a number, unless coercion is off
RECURSIVE fromWire(_, _)
fromWire(v, numericKeys) ==
  IF IsObject(v)
    THEN Object([ck \in {fromWireKey(k) : k \in DOMAIN v.object} |->
                   LET wk    == CHOOSE k \in DOMAIN v.object : fromWireKey(k) = ck
                       child == v.object[wk]
                   IN  IF /\ numericKeys.coerce
                          /\ wk \in numericKeys.keys
                          /\ IsNumericString(child)
                         THEN ToNumber(child)
                         ELSE fromWire(child, numericKeys)])
  ELSE IF IsArray(v)
    THEN Array([i \in DOMAIN v.array |-> fromWire(v.array[i], numericKeys)])
  ELSE v

\* the keys of the domain objects given to the transformer: camelCase, up to
\* MaxKeyLen letters and digits, a lower-case letter first
CamelKeys ==
  {k \in UNION {[1..n -> Lower \cup Upper \cup Digits] : n \in 1..MaxKeyLen} :
     k[1] \in Lower}

Leaves == {Number(1), String("1"), Tagged(<<"a", "B">>)}

\* the domain objects over a set of keys
DomainObjects(Keys) ==
  \* one field
  {Object([k \in {k1} |-> l]) : k1 \in Keys, l \in Leaves}
  \* two fields
  \cup {Object([k \in {k1, k2} |-> IF k = k1 THEN l ELSE Number(2)]) :
          k1 \in Keys, k2 \in Keys, l \in Leaves}
  \* a nested mapping
  \cup {Object([k \in {k1} |-> Object([j \in {k2} |-> l])]) :
          k1 \in Keys, k2 \in Keys, l \in Leaves}
  \* an array of a mapping and a primitive
  \cup {Object([k \in {k1} |-> Array(<<Object([j \in {k2} |-> l]), l>>)]) :
          k1 \in Keys, k2 \in Keys, l \in Leaves}

(* ---- the response transform of queryTaskResult ---- *)
\* numericKeys left out of the call
Undefined == [undefined |-> TRUE]

\* fromWire on a response body: the envelopes of the body are records whose keys
\* (result, message, outcome) are lower-case words, which the transformer leaves
\* as they are; it goes through them to the payload they hold
RECURSIVE fromWireBody(_, _)
fromWireBody(v, numericKeys) ==
  IF IsObject(v) \/ IsArray(v) THEN fromWire(v, numericKeys)
  ELSE IF DOMAIN v \cap {"result", "message", "outcome"} # {}
    THEN [k \in DOMAIN v |->
            IF k = "message" THEN v[k] ELSE fromWireBody(v[k], numericKeys)]
  ELSE v

\* setupTransformer(numericKeys): the transformResponse that parses a body with
\* fromWire; without an argument the known numeric field names (here "b") are coerced
setupTransformer(numericKeys, data) ==
  fromWireBody(data, IF numericKeys = Undefined THEN NumericKeys({<<"b">>})
                     ELSE numericKeys)

\* const requiresSetup = numericKeys || numericKeys === null; a list, the empty
\* list included, is truthy
requiresSetup(numericKeys) == numericKeys # Undefined

\* the transformResponse queryTaskResult puts in the request's config:
\* setupTransformer(numericKeys), or this.axios.defaults.transformResponse
taskResultTransformer(numericKeys, data) ==
  IF requiresSetup(numericKeys)
    THEN setupTransformer(numericKeys, data)
    ELSE defaultTransformResponse(data)

\* the numericKeys choices of a caller
NumericKeyChoices ==
  {Undefined, NoCoercion, NumericKeys({}), NumericKeys({<<"a">>, <<"a", "_", "b">>})}

\* the result of a balances task as the backend sends it: a snake_case key that
\* holds a stringified number
WireBalances == Object([k \in {<<"a", "_", "b">>} |-> String("1")])

(* ---- status validators ---- *)
Success2xx(status) == status >= 200 /\ status < 300

validStatus(status) == Success2xx(status)

validAccountOperationStatus(status) == Success2xx(status) \/ status \in {300, 409}

validTaskStatus(status) == Success2xx(status) \/ status = 404

\* "success or no active session"
validWithSessionStatus(status) == Success2xx(status) \/ status = 401

validWithoutSessionStatus(status) == Success2xx(status) \/ status = 401

validWithSessionAndExternalService(status) == Success2xx(status) \/ status = 401

\* axios' default validateStatus, for the calls that pass none
defaultValidateStatus(status) == Success2xx(status)

(* ---- promise outcomes ---- *)
Resolved(v) == [state |-> "resolved", error |-> "none", message |-> "", value |-> v]

Rejected(e, m, v) == [state |-> "rejected", error |-> e, message |-> m, value |-> v]

\* transport failure for a status the call's validateStatus rejects
StatusRejected(status) ==
  Rejected("AxiosError", "Request failed with status code", [status |-> status])

(* ---- envelope unwrapper ---- *)
handleResponse(status, data) ==
  IF Truthy(data.result)
    THEN Resolved(data.result)
    ELSE Rejected("ApiError", data.message, [status |-> status])

(* ---- domain schemas ---- *)
SyncConflictPayloadOk(v) == DOMAIN v = {"localSize", "remoteSize"}

UserAccountOk(v) == DOMAIN v = {"premium", "exchanges"}

Eth2DailyStatsOk(v) == DOMAIN v = {"entries", "entriesFound"}

KrakenStakingEventsOk(v) == DOMAIN v = {"events", "entriesFound"}

SchemaError == Rejected("ZodError", "invalid shape", NoValue)

(* ---- facade operations: what the rest of the method does with a response ---- *)

\* faulty variant of logout: the 409 answer is unwrapped like any other
logout_Unwrap409(status, body) ==
  IF ~validAccountOperationStatus(status) THEN StatusRejected(status)
  ELSE handleResponse(status, defaultTransformResponse(body))

\* logout: 409 counts as success without unwrapping; cancel() follows a success
logout(status, body) ==
  IF ~validAccountOperationStatus(status) THEN StatusRejected(status)
  ELSE LET response == defaultTransformResponse(body)
       IN  IF status = 409 THEN Resolved(True) ELSE handleResponse(status, response)

deletePremiumCredentials(status, body) ==
  IF ~validStatus(status) THEN StatusRejected(status)
  ELSE handleResponse(status, defaultTransformResponse(body))

\* faulty variant of queryBalancesAsync: the response keys are left in snake_case
queryBalancesAsync_NoCamelCase(status, body) ==
  IF ~validStatus(status) THEN StatusRejected(status)
  ELSE handleResponse(status, defaultTransformResponse(body))

queryBalancesAsync(status, body) ==
  IF ~validStatus(status) THEN StatusRejected(status)
  ELSE handleResponse(status, basicAxiosTransformer(body))

queryTasks(status, body) ==
  IF ~validTaskStatus(status) THEN StatusRejected(status)
  ELSE handleResponse(status, basicAxiosTransformer(body))

TaskNotFoundError(id) ==
  Rejected("TaskNotFoundError", "Task with id " \o ToString(id) \o " not found", NoValue)

HasOutcome(v) == "outcome" \in DOMAIN v /\ Truthy(v.outcome)

\* faulty variant of queryTaskResult: the envelope is unwrapped before the 404 check
queryTaskResult_UnwrapFirst(id, numericKeys, status, body) ==
  IF ~validTaskStatus(status) THEN StatusRejected(status)
  ELSE LET unwrapped == handleResponse(status, taskResultTransformer(numericKeys, body))
       IN  IF unwrapped.state = "rejected" THEN unwrapped
           ELSE IF status = 404 THEN TaskNotFoundError(id)
           ELSE IF HasOutcome(unwrapped.value)
                  THEN Resolved(unwrapped.value.outcome)
                  ELSE Rejected("Error", "No result", NoValue)

\* faulty variant of queryTaskResult: a missing outcome resolves with undefined
queryTaskResult_ResolveEmpty(id, numericKeys, status, body) ==
  IF ~validTaskStatus(status) THEN StatusRejected(status)
  ELSE IF status = 404 THEN TaskNotFoundError(id)
  ELSE LET unwrapped == handleResponse(status, taskResultTransformer(numericKeys, body))
       IN  IF unwrapped.state = "rejected" THEN unwrapped
           ELSE IF HasOutcome(unwrapped.value)
                  THEN Resolved(unwrapped.value.outcome)
                  ELSE Resolved(NoValue)

\* faulty variant of queryTaskResult: the outcome envelope is unwrapped too
queryTaskResult_UnwrapOutcome(id, numericKeys, status, body) ==
  IF ~validTaskStatus(status) THEN StatusRejected(status)
  ELSE IF status = 404 THEN TaskNotFoundError(id)
  ELSE LET unwrapped == handleResponse(status, taskResultTransformer(numericKeys, body))
       IN  IF unwrapped.state = "rejected" THEN unwrapped
           ELSE IF HasOutcome(unwrapped.value)
                  THEN handleResponse(status, unwrapped.value.outcome)
                  ELSE Rejected("Error", "No result", NoValue)

queryTaskResult(id, numericKeys, status, body) ==
  IF ~validTaskStatus(status) THEN StatusRejected(status)
  ELSE LET response == taskResultTransformer(numericKeys, body)
       IN  IF status = 404 THEN TaskNotFoundError(id)
           ELSE LET unwrapped == handleResponse(status, response)
                IN  IF unwrapped.state = "rejected" THEN unwrapped
                    ELSE IF HasOutcome(unwrapped.value)
                           THEN Resolved(unwrapped.value.outcome)
                           ELSE Rejected("Error", "No result", NoValue)

\* faulty variant of login: a 300 answer is unwrapped like any other
login_Unwrap300(status, body) ==
  IF ~validAccountOperationStatus(status) THEN StatusRejected(status)
  ELSE LET account == handleResponse(status, basicAxiosTransformer(body))
       IN  IF account.state = "rejected" THEN account
           ELSE IF UserAccountOk(account.value)
                  THEN Resolved(account.value)
                  ELSE SchemaError

\* faulty variant of login: every status is let through to the handler
login_AnyStatus(status, body) ==
  LET data == basicAxiosTransformer(body)
  IN  IF status = 300
        THEN IF SyncConflictPayloadOk(data.result)
               THEN Rejected("SyncConflictError", data.message, data.result)
               ELSE SchemaError
        ELSE LET account == handleResponse(status, data)
             IN  IF account.state = "rejected" THEN account
                 ELSE IF UserAccountOk(account.value)
                        THEN Resolved(account.value)
                        ELSE SchemaError

login(status, body) ==
  IF ~validAccountOperationStatus(status) THEN StatusRejected(status)
  ELSE LET data == basicAxiosTransformer(body)
       IN  IF status = 300
             THEN IF SyncConflictPayloadOk(data.result)
                    THEN Rejected("SyncConflictError", data.message, data.result)
                    ELSE SchemaError
             ELSE LET account == handleResponse(status, data)
                  IN  IF account.state = "rejected" THEN account
                      ELSE IF UserAccountOk(account.value)
                             THEN Resolved(account.value)
                             ELSE SchemaError

\* a method of a sub-resource API object, through the transport it was built with
subApiCall(status, body) ==
  IF ~validStatus(status) THEN StatusRejected(status)
  ELSE handleResponse(status, basicAxiosTransformer(body))

(* ---- request shaping ---- *)
SnakeKey(k) ==
  CASE k = "asyncQuery"       -> "async_query"
    [] k = "orderByAttribute" -> "order_by_attribute"
    [] k = "onlyCache"        -> "only_cache"
    [] k = "includeNfts"      -> "include_nfts"
    [] k = "eventType"        -> "event_type"
    [] OTHER                  -> k

CamelOf(v, sk) == CHOOSE k \in DOMAIN v : SnakeKey(k) = sk

\* the keys of a request body or of request params go from camelCase to snake_case
axiosSnakeCaseTransformer(v) ==
  [sk \in {SnakeKey(k) : k \in DOMAIN v} |-> v[CamelOf(v, sk)]]

\* the name of an attribute, as a value, in the wanted casing
getUpdatedKey(key, camelCase) == IF camelCase THEN key ELSE SnakeKey(key)

\* { ...a, ...b }
Spread(a, b) ==
  [k \in DOMAIN a \cup DOMAIN b |-> IF k \in DOMAIN b THEN b[k] ELSE a[k]]

\* the pagination payloads a caller passes
Paginations ==
  {[limit |-> 10, offset |-> 0, orderByAttribute |-> "timestamp"],
   [limit |-> 10, offset |-> 10, orderByAttribute |-> "eventType"]}

emptyPagination == [limit |-> 1, offset |-> 0, orderByAttribute |-> "timestamp"]

internalEth2StatsRequest(payload, asyncQuery) ==
  [method |-> "post", url |-> "/blockchains/ETH2/stake/dailystats",
   data |-> axiosSnakeCaseTransformer(
              Spread(Spread([asyncQuery |-> asyncQuery], payload),
                     [orderByAttribute |->
                        getUpdatedKey(payload.orderByAttribute, FALSE)])),
   validateStatus |-> "validWithSessionAndExternalService",
   transformResponse |-> "basicAxiosTransformer"]

\* faulty variant of eth2StatsTaskRequest: written apart from the shared
\* implementation, with another validator
eth2StatsTaskRequest_OwnShape(payload) ==
  [internalEth2StatsRequest(payload, TRUE) EXCEPT !.validateStatus = "validStatus"]

eth2StatsTaskRequest(payload) == internalEth2StatsRequest(payload, TRUE)

eth2StatsRequest(payload) == internalEth2StatsRequest(payload, FALSE)

interalKrakenStakingRequest(pagination, asyncQuery) ==
  [method |-> "post", url |-> "/staking/kraken",
   data |-> axiosSnakeCaseTransformer(
              Spread(Spread([asyncQuery |-> asyncQuery], pagination),
                     [orderByAttribute |->
                        getUpdatedKey(pagination.orderByAttribute, FALSE)])),
   validateStatus |-> "validWithSessionAndExternalService",
   transformResponse |-> "basicAxiosTransformer"]

refreshKrakenStakingRequest == interalKrakenStakingRequest(emptyPagination, TRUE)

fetchKrakenStakingEventsRequest(pagination) ==
  interalKrakenStakingRequest(Spread(pagination, [onlyCache |-> TRUE]), FALSE)

(* ---- facade operations with a synchronous and an asynchronous variant ---- *)
internalEth2Stats(status, body) ==
  IF ~validWithSessionAndExternalService(status) THEN StatusRejected(status)
  ELSE handleResponse(status, basicAxiosTransformer(body))

eth2StatsTask(status, body) == internalEth2Stats(status, body)

\* faulty variant of eth2Stats: a value the schema refuses is returned as it is
eth2Stats_SwallowSchemaError(status, body) == internalEth2Stats(status, body)

eth2Stats(status, body) ==
  LET stats == internalEth2Stats(status, body)
  IN  IF stats.state = "rejected" THEN stats
      ELSE IF Eth2DailyStatsOk(stats.value) THEN Resolved(stats.value)
      ELSE SchemaError

interalKrakenStaking(status, body) ==
  IF ~validWithSessionAndExternalService(status) THEN StatusRejected(status)
  ELSE handleResponse(status, basicAxiosTransformer(body))

refreshKrakenStaking(status, body) == interalKrakenStaking(status, body)

fetchKrakenStakingEvents(status, body) ==
  LET data == interalKrakenStaking(status, body)
  IN  IF data.state = "rejected" THEN data
      ELSE IF KrakenStakingEventsOk(data.value) THEN Resolved(data.value)
      ELSE SchemaError

(* ---- facade operations that return what handleResponse gives ---- *)
\* faulty variant of queryNetvalueData: the envelope is returned, not unwrapped
queryNetvalueData_NoUnwrap(status, body) ==
  IF ~validStatus(status) THEN StatusRejected(status)
  ELSE Resolved(defaultTransformResponse(body))

queryNetvalueData(status, body) ==
  IF ~validStatus(status) THEN StatusRejected(status)
  ELSE handleResponse(status, defaultTransformResponse(body))

btcAccounts(status, body) ==
  IF ~validWithSessionStatus(status) THEN StatusRejected(status)
  ELSE handleResponse(status, basicAxiosTransformer(body))

\* Object.keys(data): the keys of a mapping, in either form of key; an array
\* and a string have the indices of their elements, a boolean and a number none
ObjectKeys(v) ==
  [keys |-> IF IsObject(v) THEN {Text(k) : k \in DOMAIN v.object}
            ELSE IF IsArray(v) THEN {ToString(i - 1) : i \in 1..Len(v.array)}
            ELSE IF DOMAIN v = {"string"}
                   THEN {ToString(i - 1) : i \in 1..Len(v.string)}
            ELSE IF DOMAIN v \in {{"bool"}, {"number"}} THEN {}
            ELSE DOMAIN v]

users(status, body) ==
  IF ~defaultValidateStatus(status) THEN StatusRejected(status)
  ELSE LET data == handleResponse(status, defaultTransformResponse(body))
       IN  IF data.state = "rejected" THEN data
           ELSE Resolved(ObjectKeys(data.value))

(* ---- downloads ---- *)
\* the AxiosResponse object: status, data (the body), headers, config, request
AxiosResponse(status, body) == [status |-> status, data |-> body]

downloadSnapshot(status, body) ==
  IF ~validWithoutSessionStatus(status) THEN StatusRejected(status)
  ELSE Resolved(AxiosResponse(status, body))

\* catch (e) { return { success: false, message: e.message } }
downloadCSVCatch(e) == Resolved([success |-> False, message |-> e.message])

\* JSON.parse(body) of a body that holds no JSON text
JsonSyntaxError == Rejected("SyntaxError", "Unexpected token", NoValue)

downloadCSV(status, body) ==
  IF ~validTaskStatus(status) THEN downloadCSVCatch(StatusRejected(status))
  ELSE IF status = 200 THEN Resolved([success |-> True])
  ELSE IF body = Blob THEN downloadCSVCatch(JsonSyntaxError)
  ELSE Resolved([success |-> False, message |-> body.message])

\* downloadCSV got an answer it accepts that is no download: it goes on to
\* await (response.data as Blob).text() before it settles
AwaitsBlobText(op, status) ==
  op = "downloadCSV" /\ validTaskStatus(status) /\ status # 200

\* what the operation's promise does when its transport call throws e
Thrown(op, e) == IF op = "downloadCSV" THEN downloadCSVCatch(e) ELSE e

\* the request a call hands to the transport (the calls whose requests are not
\* compared carry none)
RequestOf(op, arg) ==
  CASE op = "eth2Stats"                -> eth2StatsRequest(arg)
    [] op = "eth2StatsTask"            -> eth2StatsTaskRequest(arg)
    [] op = "fetchKrakenStakingEvents" -> fetchKrakenStakingEventsRequest(arg)
    [] op = "refreshKrakenStaking"     -> refreshKrakenStakingRequest
    [] OTHER                           -> NoValue

\* the validateStatus each call passes to the transport
Accepts(op, status) ==
  CASE op \in {"logout", "login"} -> validAccountOperationStatus(status)
    [] op \in {"deletePremiumCredentials", "queryBalancesAsync", "queryNetvalueData",
               "subApi"} -> validStatus(status)
    [] op \in {"queryTasks", "queryTaskResult", "downloadCSV"} -> validTaskStatus(status)
    [] op \in {"eth2Stats", "eth2StatsTask", "fetchKrakenStakingEvents",
               "refreshKrakenStaking"} -> validWithSessionAndExternalService(status)
    [] op = "btcAccounts" -> validWithSessionStatus(status)
    [] op = "downloadSnapshot" -> validWithoutSessionStatus(status)
    [] op = "users" -> defaultValidateStatus(status)

Complete(op, arg, status, body) ==
  CASE op = "logout"                   -> logout(status, body)
    [] op = "login"                    -> login(status, body)
    [] op = "deletePremiumCredentials" -> deletePremiumCredentials(status, body)
    [] op = "queryBalancesAsync"       -> queryBalancesAsync(status, body)
    [] op = "queryTasks"               -> queryTasks(status, body)
    [] op = "queryTaskResult"          -> queryTaskResult(arg.id, arg.numericKeys, status, body)
    [] op = "subApi"                   -> subApiCall(status, body)
    [] op = "eth2Stats"                -> eth2Stats(status, body)
    [] op = "eth2StatsTask"            -> eth2StatsTask(status, body)
    [] op = "fetchKrakenStakingEvents" -> fetchKrakenStakingEvents(status, body)
    [] op = "refreshKrakenStaking"     -> refreshKrakenStaking(status, body)
    [] op = "queryNetvalueData"        -> queryNetvalueData(status, body)
    [] op = "btcAccounts"              -> btcAccounts(status, body)
    [] op = "users"                    -> users(status, body)
    [] op = "downloadSnapshot"         -> downloadSnapshot(status, body)
    [] op = "downloadCSV"              -> downloadCSV(status, body)

(* ---- state ---- *)
VARIABLES
  serverUrl,    \* _serverUrl
  transports,   \* every axios instance created so far: [baseURL, interceptor]
  axios,        \* this.axios: index of the current transport
  apis,         \* the sub-resource API objects: name -> transport they are bound to
  signal,       \* this.signal: id of the active cancellation source
  cancelled,    \* ids of the sources whose cancel() has been called
  reqs,         \* the requests that exist, a bag of request records
  held,         \* transport of a sub-resource API object the caller keeps (0: none)
  tasks,        \* backend: task id -> "none" | "pending" | "completed" | "consumed"
  obj,          \* the domain object handed to the key-casing transformer
  wire,         \* its wire format, once toWire has run
  parsed        \* what fromWire gave, and the numericKeys it was given

\* A request record: op and arg (the method and its task id or payload), config
\* (the request it hands to the transport), axios (the transport
\* it was made on), stale (that transport was not this.axios when the call was
\* made), given (the cancel token the caller passed in the call's config, 0 when
\* none), token (the cancel token of the request: given, until the interceptor
\* attaches one), state
\* ("queued", "inflight", "arrived" when its answer is there and the rest of the
\* operation has not run, "reading" while downloadCSV awaits the text of the
\* blob it was answered with, "resolved", "rejected"), and once answered: by (what
\* settled it), status and body of the response, and the promise's error kind,
\* message and value.

vars == <<serverUrl, transports, axios, apis, signal, cancelled, reqs, held, tasks,
          obj, wire, parsed>>

codec == <<obj, wire, parsed>>

facade == <<serverUrl, transports, axios, apis>>

ApiNames == {"defi", "session", "balances", "history", "reports", "assets", "backups"}

Urls == {"", "http://localhost:4242"}

(* ---- the default server URL ---- *)
\* what the constructor reads: process.env.VUE_APP_BACKEND_URL and
\* process.env.VUE_APP_PUBLIC_PATH ("" when the build does not set them) and
\* window.location.pathname, character by character
Environments ==
  {[backendUrl |-> b, publicPath |-> p, pathname |-> n] :
     b \in {"", "http://127.0.0.1:4242"}, p \in {"", "/"},
     n \in {<<"/">>, <<"/", "a">>, <<"/", "a", "/">>}}

PlainBuild == [backendUrl |-> "", publicPath |-> "", pathname |-> <<"/">>]

\* get defaultServerUrl()
defaultServerUrl(env) ==
  IF env.backendUrl # "" THEN env.backendUrl
  ELSE IF env.publicPath # ""
    THEN Text(IF env.pathname # <<>> /\ env.pathname[Len(env.pathname)] = "/"
                THEN SubSeq(env.pathname, 1, Len(env.pathname) - 1)
                ELSE env.pathname)
  ELSE ""

Statuses == {200, 300, 404, 409, 500}

\* the statuses the typed endpoints answer with
EndpointStatuses == {200, 401, 404, 500}

DualModeOps == {"eth2Stats", "eth2StatsTask", "fetchKrakenStakingEvents"}

PlainOps == {"refreshKrakenStaking", "queryNetvalueData", "btcAccounts", "users",
             "downloadSnapshot", "downloadCSV"}

\* a cancel token of the caller's own, passed in the config of a call
OwnToken == -1

CallerTokens == {0, OwnToken}

NewRequestWith(op, arg, transport, given) ==
  [op |-> op, arg |-> arg, config |-> RequestOf(op, arg),
   axios |-> transport, given |-> given, token |-> given,
   state |-> "queued",
   stale |-> transport # axios,
   status |-> 0, body |-> NoValue, error |-> "none", message |-> "",
   value |-> NoValue, by |-> "none"]

NewRequest(op, arg, transport) == NewRequestWith(op, arg, transport, 0)

Reqs == BagToSet(reqs)

One(r) == SetToBag({r})

Settled(r) == r.state \in {"resolved", "rejected"}

NoSettled == \A r \in Reqs : ~Settled(r)

NoQueued == \A r \in Reqs : r.state # "queued"

Settle(r, status, body, by, out) ==
  [r EXCEPT !.status = status, !.body = body, !.by = by, !.state = out.state,
            !.error = out.error, !.message = out.message, !.value = out.value]

\* the transport call of r has returned and r waits for the text of the blob
Reading(r, status, body, by) ==
  [r EXCEPT !.status = status, !.body = body, !.by = by, !.state = "reading"]

CancelError == Rejected("Cancel", "cancelling all pending requests", NoValue)

Cancelled(r) == Settle(r, 0, NoValue, "cancel", Thrown(r.op, CancelError))

(* ---- transport and cancellation ---- *)
\* axios.create({ baseURL: `${serverUrl}/api/1/`, timeout: 30000 })
axiosCreate(url) == [baseURL |-> url \o "/api/1/", interceptor |-> FALSE]

\* setupCancellation(): installs the request interceptor on the transport
setupCancellation(transport) == [transport EXCEPT !.interceptor = TRUE]

\* setupApis(axios): all seven sub-resource objects are built on the same transport
setupApis(transport) == [n \in ApiNames |-> transport]

\* faulty variant of interceptorToken: a token passed by the caller is kept
interceptorToken_KeepOwn(r) ==
  IF transports[r.axios].interceptor /\ r.token = 0 THEN signal ELSE r.token

\* the token a request leaves the interceptor with: request.cancelToken =
\* this.signal.token, whatever the config held
interceptorToken(r) == IF transports[r.axios].interceptor THEN signal ELSE r.token

RECURSIVE MapBag(_, _, _)
MapBag(bag, S, token) ==
  IF S = {} THEN EmptyBag
  ELSE LET r == CHOOSE x \in S : TRUE
           q == IF r.state = "inflight" /\ r.token = token THEN Cancelled(r) ELSE r
       IN  [x \in {q} |-> bag[r]] (+) MapBag(bag, S \ {r}, token)

\* faulty variant of cancelRequests: cancelling the source rejects nothing
cancelRequests_None(bag, token) == bag

\* signal.cancel(...): every request that carries the token and is still in flight
\* rejects with the cancellation error
cancelRequests(bag, token) == MapBag(bag, BagToSet(bag), token)

(* ---- backend replies ---- *)
RECURSIVE SeqOf(_)
SeqOf(S) == IF S = {} THEN <<>>
            ELSE LET m == CHOOSE x \in S : \A y \in S : x <= y
                 IN  <<m>> \o SeqOf(S \ {m})

TasksIn(st) == SeqOf({t \in TaskIds : tasks[t] = st})

Outcomes == {Envelope(WireBalances, ""), Envelope(Null, "task failed")}

Failure == Envelope(Null, "bad")

Bodies(op) ==
  CASE op = "logout"             -> {Envelope(True, ""), Envelope(False, ""), Failure}
    [] op = "login"              -> {Envelope(WireAccount, ""),
                                     Envelope(WireSyncConflict, "conflict"), Failure}
    [] op = "queryBalancesAsync" -> {Envelope(WirePendingTask(1), ""), Failure}
    [] op = "queryTasks"         -> {Envelope(WireTaskStatus(<<>>, <<1>>), ""), Failure}
    [] op = "queryTaskResult"    -> {Envelope(WireTaskResult(o), "") :
                                       o \in Outcomes \cup {Null, Number(0)}}
                                    \cup {Envelope(True, ""), Failure}
    [] op \in {"eth2Stats", "eth2StatsTask"} ->
         {Envelope(WireEth2Stats, ""), Envelope(WirePendingTask(1), ""), Failure}
    [] op \in {"fetchKrakenStakingEvents", "refreshKrakenStaking"} ->
         {Envelope(WireKrakenEvents, ""), Envelope(WirePendingTask(1), ""), Failure}
    [] op = "queryNetvalueData"  -> {Envelope(WireNetValue, ""), Envelope(Number(5), ""),
                                     Envelope(Number(0), ""),
                                     Envelope(WirePendingTask(1), ""),
                                     Envelope(False, ""), Failure}
    [] op = "btcAccounts"        -> {Envelope(WireBtcAccounts, ""),
                                     Envelope(WirePendingTask(1), ""), Failure}
    [] op = "users"              -> {Envelope(WireUsers, ""), Envelope(WireBalances, ""),
                                     Envelope(Array(<<String("x"), Number(5)>>), ""),
                                     Envelope(Number(5), ""), Envelope(String("x"), ""),
                                     Failure}
    [] op \in {"downloadSnapshot", "downloadCSV"} -> {Blob, Failure}
    [] OTHER                     -> {Envelope(True, ""), Failure}

TaskOps == {"queryBalancesAsync", "queryTasks", "queryTaskResult"}

FreeTask == CHOOSE t \in TaskIds : tasks[t] = "none" /\ \A u \in 1..(t - 1) : tasks[u] # "none"

\* the replies the task protocol allows: [status, body, tasks]
ProtocolReplies(r) ==
  CASE r.op = "queryBalancesAsync" ->
         IF \E t \in TaskIds : tasks[t] = "none"
           THEN {[status |-> 200, body |-> Envelope(WirePendingTask(FreeTask), ""),
                  tasks |-> [tasks EXCEPT ![FreeTask] = "pending"]]}
           ELSE {}
    [] r.op = "queryTasks" ->
         {[status |-> 200,
           body |-> Envelope(WireTaskStatus(TasksIn("pending"), TasksIn("completed")), ""),
           tasks |-> tasks]}
    [] r.op = "queryTaskResult" ->
         CASE tasks[r.arg.id] = "completed" ->
                {[status |-> 200, body |-> Envelope(WireTaskResult(o), ""),
                  tasks |-> [tasks EXCEPT ![r.arg.id] = "consumed"]] : o \in Outcomes}
           [] tasks[r.arg.id] = "pending" ->
                {[status |-> 200, body |-> Envelope(WireTaskResult(Null), ""),
                  tasks |-> tasks]}
           [] OTHER ->
                {[status |-> 404, body |-> Envelope(WireTaskResult(Null), "not found"),
                  tasks |-> tasks]}
    [] r.op \in DualModeOps \cup PlainOps ->
         {[status |-> s, body |-> b, tasks |-> tasks] :
            s \in EndpointStatuses, b \in Bodies(r.op)}
    [] OTHER ->
         {[status |-> s, body |-> b, tasks |-> tasks] : s \in Statuses, b \in Bodies(r.op)}

(* ---- initial state: the constructor ---- *)
\* the state the constructor leaves in the environment env
Constructed(env) ==
  /\ serverUrl = defaultServerUrl(env)
  /\ transports = <<setupCancellation(axiosCreate(defaultServerUrl(env)))>>
  /\ axios = 1
  /\ apis = setupApis(1)
  /\ signal = 1
  /\ cancelled = {}
  /\ reqs = EmptyBag
  /\ held = 0
  /\ tasks = [t \in TaskIds |-> "none"]
  /\ obj = NoValue
  /\ wire = NoValue
  /\ parsed = NoValue

Init == \E env \in Environments : Constructed(env)

\* the constructor in the build that sets neither variable; the specifications
\* whose properties do not read the server URL start here
InitPlain == Constructed(PlainBuild)

(* ---- actions ---- *)
Outstanding(op) ==
  BagCardinality([r \in {x \in Reqs : x.op = op /\ ~Settled(x)} |-> reqs[r]])

CallAllowed(op) ==
  /\ NoSettled
  /\ BagCardinality(reqs) < MaxInFlight
  /\ op = "logout" => (signal - 1) + Outstanding("logout") < MaxSources
  /\ op = "queryBalancesAsync" =>
       Outstanding(op) < Cardinality({t \in TaskIds : tasks[t] = "none"})

\* faulty variant of Call: logout makes its request on a transport of its own,
\* which becomes the facade's
Call_NewTransport(op, arg) ==
  /\ CallAllowed(op)
  /\ reqs' = reqs (+) One(NewRequest(op, arg, axios))
  /\ IF op = "logout" /\ Len(transports) <= MaxSetups
       THEN /\ serverUrl' = serverUrl
            /\ transports' = Append(transports, setupCancellation(axiosCreate(serverUrl)))
            /\ axios' = Len(transports) + 1
            /\ apis' = setupApis(Len(transports) + 1)
       ELSE UNCHANGED facade
  /\ UNCHANGED <<codec, signal, cancelled, held, tasks>>

\* a facade method runs up to its transport call: this.axios.get/patch/delete(...)
Call(op, arg) ==
  /\ CallAllowed(op)
  /\ reqs' = reqs (+) One(NewRequest(op, arg, axios))
  /\ UNCHANGED <<codec, facade, signal, cancelled, held, tasks>>

\* the caller reads one of the getters (defi, session, ...) and keeps the object
ObtainApi(name) ==
  /\ NoSettled
  /\ held # apis[name]
  /\ held' = apis[name]
  /\ UNCHANGED <<codec, facade, signal, cancelled, reqs, tasks>>

\* a method of the kept sub-resource object is called
CallSubApi(given) ==
  /\ held # 0
  /\ CallAllowed("subApi")
  /\ reqs' = reqs (+) One(NewRequestWith("subApi", 0, held, given))
  /\ UNCHANGED <<codec, facade, signal, cancelled, held, tasks>>

\* faulty variant of Setup: the sub-resource objects are not rebuilt
Setup_KeepApis(url) ==
  /\ NoSettled
  /\ serverUrl' = url
  /\ transports' = Append(transports, setupCancellation(axiosCreate(url)))
  /\ axios' = Len(transports) + 1
  /\ apis' = apis
  /\ UNCHANGED <<codec, signal, cancelled, reqs, held, tasks>>

\* setup(serverUrl)
Setup(url) ==
  /\ NoSettled
  /\ serverUrl' = url
  /\ transports' = Append(transports, setupCancellation(axiosCreate(url)))
  /\ axios' = Len(transports) + 1
  /\ apis' = setupApis(Len(transports) + 1)
  /\ UNCHANGED <<codec, signal, cancelled, reqs, held, tasks>>

\* the request interceptor of the request's transport runs, then the request is sent
Intercept(r) ==
  /\ r.state = "queued"
  /\ LET q == [r EXCEPT !.token = interceptorToken(r)]
     IN  reqs' = (reqs (-) One(r)) (+)
                 One(IF q.token \in cancelled THEN Cancelled(q)
                     ELSE [q EXCEPT !.state = "inflight"])
  /\ UNCHANGED <<codec, facade, signal, cancelled, held, tasks>>

\* faulty variant of cancel: the cancelled source stays the active one
cancel_KeepSource(others, done) ==
  /\ reqs' = cancelRequests(others, signal) (+) done
  /\ cancelled' = cancelled \cup {signal}
  /\ signal' = signal

\* faulty variant of cancel: the first source is taken again instead of a fresh one
cancel_ReuseSource(others, done) ==
  /\ reqs' = cancelRequests(others, signal) (+) done
  /\ cancelled' = cancelled \cup {signal}
  /\ signal' = IF signal = 1 THEN 2 ELSE 1

\* cancel(): the active source is cancelled, then replaced by a fresh one
cancel(others, done) ==
  /\ reqs' = cancelRequests(others, signal) (+) done
  /\ cancelled' = cancelled \cup {signal}
  /\ signal' = signal + 1

\* faulty variant of Deliver: an operation that fails sends its request again
Deliver_Retry(r, status, body, by) ==
  LET out  == Complete(r.op, r.arg, status, body)
      done == One(IF AwaitsBlobText(r.op, status)
                    THEN Reading(r, status, body, by)
                    ELSE Settle(r, status, body, by, out))
      rest == reqs (-) One(r)
  IN  IF r.op = "logout" /\ out.state = "resolved"
        THEN cancel(rest, done)
        ELSE /\ reqs' = (rest (+) done) (+)
                        (IF out.state = "rejected"
                           THEN One(NewRequestWith(r.op, r.arg, r.axios, r.given))
                           ELSE EmptyBag)
             /\ UNCHANGED <<signal, cancelled>>

\* faulty variant of Deliver: logout runs cancel() whether it succeeded or not
Deliver_CancelOnFailure(r, status, body, by) ==
  LET out  == Complete(r.op, r.arg, status, body)
      done == One(IF AwaitsBlobText(r.op, status)
                    THEN Reading(r, status, body, by)
                    ELSE Settle(r, status, body, by, out))
      rest == reqs (-) One(r)
  IN  IF r.op = "logout"
        THEN cancel(rest, done)
        ELSE /\ reqs' = rest (+) done
             /\ UNCHANGED <<signal, cancelled>>

\* a response arrives and the rest of the operation runs; a successful logout
\* ends with cancel()
Deliver(r, status, body, by) ==
  LET out  == Complete(r.op, r.arg, status, body)
      done == One(IF AwaitsBlobText(r.op, status)
                    THEN Reading(r, status, body, by)
                    ELSE Settle(r, status, body, by, out))
      rest == reqs (-) One(r)
  IN  IF r.op = "logout" /\ out.state = "resolved"
        THEN cancel(rest, done)
        ELSE /\ reqs' = rest (+) done
             /\ UNCHANGED <<signal, cancelled>>

\* a new task of the event loop begins for r: the microtasks of the tasks before
\* it have run
Deliverable(r) ==
  /\ r.state = "inflight" /\ NoQueued /\ NoSettled
  /\ \A x \in Reqs : x.state # "arrived"

\* the backend answers: task endpoints by the task protocol, the others with
\* any status and body
BackendReply(r) ==
  /\ Deliverable(r)
  /\ \E rep \in ProtocolReplies(r) :
       /\ Deliver(r, rep.status, rep.body, "backend")
       /\ tasks' = rep.tasks
  /\ UNCHANGED <<codec, facade, held>>

\* the answer to r has arrived and its task has begun; every call made before
\* has been through its interceptor.  What the caller does in the microtasks of
\* this task runs before or after the rest of the operation, as axios and the
\* host order them
Arrive(r) ==
  /\ Deliverable(r)
  /\ \E rep \in ProtocolReplies(r) :
       /\ reqs' = (reqs (-) One(r)) (+)
                  One([r EXCEPT !.status = rep.status, !.body = rep.body,
                                !.by = "backend", !.state = "arrived"])
       /\ tasks' = rep.tasks
  /\ UNCHANGED <<codec, facade, signal, cancelled, held>>

\* the rest of the operation runs on the answer that arrived, while the request
\* interceptor of a call made since then may not have run yet
EarlyReply(r) ==
  /\ r.state = "arrived" /\ NoSettled
  /\ Deliver(r, r.status, r.body, r.by)
  /\ UNCHANGED <<codec, facade, held, tasks>>

\* a task endpoint answers outside the protocol (error statuses, empty envelopes)
FaultReply(r) ==
  /\ Deliverable(r)
  /\ r.op \in TaskOps
  /\ \E status \in Statuses, body \in Bodies(r.op) :
       Deliver(r, status, body, "fault")
  /\ UNCHANGED <<codec, facade, held, tasks>>

\* the connection fails: the transport rejects with its network error
NetworkError(r) ==
  /\ Deliverable(r)
  /\ reqs' = (reqs (-) One(r)) (+)
             One(Settle(r, 0, NoValue, "network",
                        Thrown(r.op, Rejected("AxiosError", "Network Error", NoValue))))
  /\ UNCHANGED <<codec, facade, signal, cancelled, held, tasks>>

\* no answer within the timeout the transport was created with (timeout: 30000):
\* the transport rejects with its timeout error
Timeout(r) ==
  /\ Deliverable(r)
  /\ reqs' = (reqs (-) One(r)) (+)
             One(Settle(r, 0, NoValue, "timeout",
                        Thrown(r.op, Rejected("AxiosError", "timeout of 30000ms exceeded",
                                              NoValue))))
  /\ UNCHANGED <<codec, facade, signal, cancelled, held, tasks>>

\* the text of the blob arrives (in the same microtask drain or in a later task,
\* as the host has it) and downloadCSV runs to its end
BlobText(r) ==
  /\ r.state = "reading"
  /\ NoSettled
  /\ reqs' = (reqs (-) One(r)) (+)
             One(Settle(r, r.status, r.body, r.by,
                        Complete(r.op, r.arg, r.status, r.body)))
  /\ UNCHANGED <<codec, facade, signal, cancelled, held, tasks>>

\* the caller's reaction to a settled promise has run
Collect(r) ==
  /\ Settled(r)
  /\ reqs' = reqs (-) One(r)
  /\ UNCHANGED <<codec, facade, signal, cancelled, held, tasks>>

\* the backend finishes a task
TaskDone(t) ==
  /\ tasks[t] = "pending"
  /\ NoQueued /\ NoSettled
  /\ tasks' = [tasks EXCEPT ![t] = "completed"]
  /\ UNCHANGED <<codec, facade, signal, cancelled, reqs, held>>

\* a domain object is about to go through the transformer
InitTransform ==
  /\ Constructed(PlainBuild)!1 /\ Constructed(PlainBuild)!2 /\ Constructed(PlainBuild)!3
  /\ Constructed(PlainBuild)!4 /\ Constructed(PlainBuild)!5 /\ Constructed(PlainBuild)!6
  /\ Constructed(PlainBuild)!7 /\ Constructed(PlainBuild)!8 /\ Constructed(PlainBuild)!9
  /\ obj \in DomainObjects(CamelKeys)
  /\ wire = NoValue
  /\ parsed = NoValue

\* toWire(obj): a request body is shaped
ToWire ==
  /\ wire = NoValue /\ parsed = NoValue
  /\ wire' = toWire(obj)
  /\ UNCHANGED <<facade, signal, cancelled, reqs, held, tasks, obj, parsed>>

\* fromWire(wire, numericKeys): the body comes back and is parsed
FromWire(numericKeys) ==
  /\ wire # NoValue /\ parsed = NoValue
  /\ parsed' = [value |-> fromWire(wire, numericKeys), numericKeys |-> numericKeys,
                of |-> "wire"]
  /\ UNCHANGED <<facade, signal, cancelled, reqs, held, tasks, obj, wire>>

\* fromWire(obj, null): an object that is camelCase already is parsed
FromWireAgain ==
  /\ wire = NoValue /\ parsed = NoValue
  /\ parsed' = [value |-> fromWire(obj, NoCoercion), numericKeys |-> NoCoercion,
                of |-> "domain"]
  /\ UNCHANGED <<facade, signal, cancelled, reqs, held, tasks, obj, wire>>

SessionOps == {"logout", "deletePremiumCredentials"}

EndpointOps == {"logout", "login", "queryBalancesAsync", "queryTasks"}

Transport ==
  \/ \E r \in Reqs : Intercept(r)
  \/ \E r \in Reqs : BackendReply(r)
  \/ \E r \in Reqs : NetworkError(r)
  \/ \E r \in Reqs : Collect(r)

\* the session and the transport: logout, setup and the sub-resource objects
Next ==
  \/ \E op \in SessionOps : Call(op, 0)
  \/ \E name \in ApiNames : ObtainApi(name)
  \/ CallSubApi(0)
  \/ \E url \in Urls : Len(transports) <= MaxSetups /\ Setup(url)
  \/ Transport

Spec == InitPlain /\ [][Next]_vars

\* the constructor in every environment and sequences of setup calls, with the
\* getters read and calls of kept sub-resource objects in between
NextSetup ==
  \/ \E name \in ApiNames : ObtainApi(name)
  \/ CallSubApi(0)
  \/ \E url \in Urls : Len(transports) <= MaxSetupSeq /\ Setup(url)
  \/ Transport

SpecSetup == Init /\ [][NextSetup]_vars

\* the endpoints against the backend: login and the task protocol
NextEndpoints ==
  \/ \E op \in EndpointOps : Call(op, 0)
  \/ \E t \in TaskIds, numericKeys \in {Undefined, NumericKeys({<<"a", "_", "b">>})} :
       Call("queryTaskResult", [id |-> t, numericKeys |-> numericKeys])
  \/ \E r \in Reqs : FaultReply(r)
  \/ \E t \in TaskIds : TaskDone(t)
  \/ Transport

SpecEndpoints == InitPlain /\ [][NextEndpoints]_vars

\* the typed endpoints: request shaping, unwrapping, schema parsing, downloads
NextFacade ==
  \/ \E op \in DualModeOps, payload \in Paginations : Call(op, payload)
  \/ \E op \in PlainOps : Call(op, NoValue)
  \/ \E r \in Reqs : BlobText(r)
  \/ Transport

SpecFacade == InitPlain /\ [][NextFacade]_vars

\* every way a typed endpoint fails: the connection, the timeout, a status its
\* validator refuses, the envelope unwrapper, the schema parser, and cancel() of
\* a logout that succeeded meanwhile
NextFailures ==
  \/ \E op \in DualModeOps :
       Call(op, [limit |-> 10, offset |-> 0, orderByAttribute |-> "timestamp"])
  \/ \E op \in PlainOps : Call(op, NoValue)
  \/ Call("logout", 0)
  \/ \E r \in Reqs : BlobText(r)
  \/ \E r \in Reqs : Timeout(r)
  \/ Transport

SpecFailures == InitPlain /\ [][NextFailures]_vars

\* the session operations when a response may be handled before a queued call
\* reaches its interceptor
NextDispatch ==
  \/ \E op \in SessionOps : Call(op, 0)
  \/ \E r \in Reqs : Arrive(r)
  \/ \E r \in Reqs : EarlyReply(r)
  \/ Transport

SpecDispatch == InitPlain /\ [][NextDispatch]_vars

\* the calls of the sub-resource objects, with or without a cancel token of the
\* caller's own, across logout and setup (to another server)
NextTokens ==
  \/ Call("logout", 0)
  \/ \E name \in ApiNames : ObtainApi(name)
  \/ \E given \in CallerTokens : CallSubApi(given)
  \/ \E url \in Urls \ {serverUrl} : Len(transports) <= MaxSetups /\ Setup(url)
  \/ \E r \in Reqs : Timeout(r)
  \/ Transport

SpecTokens == InitPlain /\ [][NextTokens]_vars

\* the key-casing transformer on its own
NextTransform ==
  \/ ToWire
  \/ \E numericKeys \in {NoCoercion, NumericKeys({<<"a">>, <<"a", "_", "b">>})} :
       FromWire(numericKeys)
  \/ FromWireAgain

SpecTransform == InitTransform /\ [][NextTransform]_vars

\* the fetch of a task's result with each numericKeys choice of the caller
NextTaskResult ==
  \/ Call("queryBalancesAsync", 0)
  \/ \E t \in TaskIds, numericKeys \in NumericKeyChoices :
       Call("queryTaskResult", [id |-> t, numericKeys |-> numericKeys])
  \/ \E t \in TaskIds : TaskDone(t)
  \/ Transport

SpecTaskResult == InitPlain /\ [][NextTaskResult]_vars

\* the session operations next to a download: the answer to downloadCSV may be
\* waiting for the text of its blob when a logout runs cancel()
NextDownload ==
  \/ \E op \in SessionOps : Call(op, 0)
  \/ Call("downloadCSV", NoValue)
  \/ \E r \in Reqs : BlobText(r)
  \/ Transport

SpecDownload == InitPlain /\ [][NextDownload]_vars

(* ---- properties ---- *)
InFlightWith(bag, token) ==
  BagCardinality([r \in {x \in BagToSet(bag) : x.state = "inflight" /\ x.token = token}
                    |-> bag[r]])

CancelledIn(bag) ==
  BagCardinality([r \in {x \in BagToSet(bag) : x.error = "Cancel"} |-> bag[r]])

InFlight(bag) ==
  BagCardinality([r \in {x \in BagToSet(bag) : x.state = "inflight"} |-> bag[r]])

\* the requests that settled in this step
NewlySettled(q) == Settled(q) /\ CopiesIn(q, reqs') > CopiesIn(q, reqs)

\* C1: when cancel() runs (the active source changes), every request in flight with
\* the old token T rejects with the cancellation error (all of them but the logout
\* whose success ran cancel()), none stays in flight with T, a request is only ever
\* rejected with the cancellation error in such a step and for the token T that was
\* replaced, and no request carrying the new token is cancelled by it.
C1_CancelRejectsRequestsOfOldToken ==
  [][ /\ signal' # signal =>
           /\ InFlightWith(reqs', signal) = 0
           /\ CancelledIn(reqs') = InFlightWith(reqs, signal) - 1
           /\ \A r \in Reqs :
                r.state = "inflight" /\ r.token = signal /\ r.op # "logout"
                  => CopiesIn(Cancelled(r), reqs') = CopiesIn(r, reqs)
      /\ \A q \in Reqs' :
           q.error = "Cancel" /\ NewlySettled(q)
             => signal' # signal /\ q.token = signal
      /\ \A q \in Reqs' : q.token = signal' => q.error # "Cancel"
    ]_vars

\* two requests that carried the same token T were rejected by the cancel() of a
\* logout that resolved, and T is no longer the active token
C1_Witness ==
  /\ CancelledIn(reqs) >= 2
  /\ \E l \in Reqs :
       /\ l.op = "logout" /\ l.state = "resolved"
       /\ l.token \in cancelled /\ l.token # signal
       /\ \A q \in Reqs : q.error = "Cancel" => q.token = l.token

\* C7: a 409 answer makes logout resolve with true, whatever the envelope holds,
\* and makes an operation with the plain validator fail.
C7_Status409SuccessOnlyOnLogout ==
  \A r \in Reqs :
    r.status = 409 =>
      /\ r.op = "logout" => r.state = "resolved" /\ r.value = True
      /\ r.op \in {"deletePremiumCredentials", "subApi"} => r.state = "rejected"

\* logout answered 409 with an envelope that has no result: resolved with true
C7_Witness ==
  \E r \in Reqs :
    /\ r.op = "logout" /\ r.status = 409 /\ r.body = Envelope(Null, "bad")
    /\ r.state = "resolved" /\ r.value = True

\* C8: in the step in which a logout succeeds (status 409, or an accepted status
\* and a present result) the logout resolves, the source it carried is cancelled
\* and replaced by one that is not cancelled, and every other request that was in
\* flight is cancelled (its operation fails with the cancellation error;
\* downloadCSV, which catches it, reports it): none is left in flight.  The only
\* other operation still running is a downloadCSV whose request was answered
\* before and that waits for the text of the answer.
C8_LogoutSuccessCancelsTheRest ==
  [][ \A q \in Reqs' :
        /\ q.op = "logout" /\ q.by = "backend" /\ NewlySettled(q)
        /\ \/ q.status = 409
           \/ validAccountOperationStatus(q.status) /\ Truthy(q.body.result)
        => /\ q.state = "resolved"
           /\ q.token = signal /\ signal \in cancelled'
           /\ signal' # signal /\ signal' \notin cancelled'
           /\ CopiesIn(q, reqs') = 1
           /\ BagCardinality(reqs') = BagCardinality(reqs)
           /\ InFlight(reqs') = 0
           /\ \A x \in Reqs :
                x.state = "inflight" /\ x.op # "logout"
                  => CopiesIn(Cancelled(x), reqs') = CopiesIn(x, reqs)
           /\ \A x \in Reqs' :
                x # q =>
                  \/ /\ x.by = "cancel" /\ x.token = signal
                     /\ IF x.op = "downloadCSV"
                          THEN x.value = [success |-> False, message |-> CancelError.message]
                          ELSE x.error = "Cancel"
                  \/ /\ x.op = "downloadCSV" /\ x.state = "reading"
                     /\ CopiesIn(x, reqs') = CopiesIn(x, reqs)
    ]_vars

\* a logout answered 200 with a result has resolved, a request that was in flight
\* with it has been rejected with the cancellation error, and a downloadCSV that
\* had been answered before still waits for the text of its answer
C8_Witness ==
  \E l \in Reqs :
    /\ l.op = "logout" /\ l.status = 200 /\ l.state = "resolved"
    /\ \E x \in Reqs : x.op # "logout" /\ x.error = "Cancel" /\ x.token = l.token
    /\ \E d \in Reqs : d.op = "downloadCSV" /\ d.state = "reading" /\ d.token = l.token
    /\ signal \notin cancelled /\ l.token \in cancelled

\* C9 (as claimed): a setup() that finds requests in flight cancels each of them
\* and replaces the active cancellation source.
C9_SetupCancelsInFlight ==
  [][ axios' # axios /\ (\E r \in Reqs : r.state = "inflight")
        => /\ signal' # signal
           /\ signal \in cancelled'
           /\ \A r \in Reqs : r.state = "inflight" =>
                /\ CopiesIn(r, reqs') = 0
                /\ CopiesIn(Cancelled(r), reqs') = CopiesIn(r, reqs)
    ]_vars

\* C10 (as claimed): a call made through a transport that setup() has replaced,
\* or a request other than the logout itself that carries a replaced token, never
\* resolves.
C10_StaleReferenceFails ==
  \A r \in Reqs :
    (r.stale \/ (r.token \in cancelled /\ r.op # "logout")) => r.state # "resolved"

\* C2: a 404 answer to queryTaskResult rejects with TaskNotFoundError whatever the
\* body is (an envelope without result included, so the check precedes the
\* unwrapping), and the step issues no further request.
C2_NotFoundBeforeUnwrap ==
  [][ \A q \in Reqs' :
        q.op = "queryTaskResult" /\ q.status = 404 /\ NewlySettled(q)
        => /\ q.state = "rejected" /\ q.error = "TaskNotFoundError"
           /\ BagCardinality(reqs') = BagCardinality(reqs)
           /\ \A x \in Reqs' : x.state # "queued"
    ]_vars

\* a 404 whose envelope has no result (unwrapping it would give ApiError)
C2_Witness ==
  \E r \in Reqs :
    /\ r.op = "queryTaskResult" /\ r.status = 404 /\ r.body = Envelope(Null, "bad")
    /\ r.error = "TaskNotFoundError"

\* C3: an accepted answer other than 404 whose envelope unwraps (its result is
\* present) to a task result without outcome rejects with Error('No result').
C3_NoOutcomeIsNoResult ==
  \A r \in Reqs :
    /\ r.op = "queryTaskResult" /\ r.by \in {"backend", "fault"}
    /\ r.status # 404 /\ validTaskStatus(r.status)
    /\ Truthy(r.body.result) /\ ~HasOutcome(r.body.result)
    => r.state = "rejected" /\ r.error = "Error" /\ r.message = "No result"

\* a 200 answer with { outcome: null } was rejected with 'No result'
C3_Witness ==
  \E r \in Reqs :
    /\ r.op = "queryTaskResult" /\ r.status = 200
    /\ r.body = Envelope(WireTaskResult(Null), "")
    /\ r.error = "Error" /\ r.message = "No result"

\* the response data of a task fetch: the body after the transformResponse of the call
TaskResponse(r) == taskResultTransformer(r.arg.numericKeys, r.body)

TaskFetched(r) ==
  /\ r.op = "queryTaskResult" /\ r.by \in {"backend", "fault"}
  /\ r.status # 404 /\ validTaskStatus(r.status)
  /\ Truthy(r.body.result) /\ HasOutcome(r.body.result)

\* C4 (as claimed): a found task with an outcome resolves with the outcome's result
\* when it is present and rejects with ApiError and the outcome's message when not.
C4_OutcomeIsUnwrapped ==
  \A r \in Reqs :
    TaskFetched(r) =>
      LET outcome == TaskResponse(r).result.outcome
      IN  IF Truthy(outcome.result)
            THEN r.state = "resolved" /\ r.value = outcome.result
            ELSE r.state = "rejected" /\ r.error = "ApiError"
                 /\ r.message = outcome.message

\* C4 (amended): a found task with an outcome resolves with the outcome envelope
\* itself, {result, message}, whether or not its result is present.
C4_OutcomeEnvelopeReturned ==
  \A r \in Reqs :
    TaskFetched(r) => r.state = "resolved" /\ r.value = TaskResponse(r).result.outcome

\* the outcome of a failed task (no result, a message) was returned, not thrown
C4_Witness ==
  \E r \in Reqs :
    /\ TaskFetched(r)
    /\ r.state = "resolved" /\ r.value = Envelope(Null, "task failed")

Range(seq) == {seq[i] : i \in DOMAIN seq}

\* C5: against the task protocol, a submission resolves with the id of a task the
\* backend starts; queryTasks resolves with exactly the running ids in pending and
\* the finished ones in completed; the fetch of a completed task resolves with its
\* outcome and the backend frees it; the fetch of a freed or never submitted id
\* rejects with TaskNotFoundError.
C5_TaskLifecycle ==
  [][ \A q \in Reqs' :
        q.by = "backend" /\ NewlySettled(q) =>
          /\ q.op = "queryBalancesAsync" =>
               /\ q.state = "resolved"
               /\ \E t \in TaskIds :
                    q.value = [taskId |-> t] /\ tasks[t] = "none" /\ tasks'[t] = "pending"
          /\ q.op = "queryTasks" =>
               /\ q.state = "resolved"
               /\ Range(q.value.pending) = {t \in TaskIds : tasks[t] = "pending"}
               /\ Range(q.value.completed) = {t \in TaskIds : tasks[t] = "completed"}
          /\ q.op = "queryTaskResult" =>
               /\ tasks[q.arg.id] = "completed" =>
                    /\ q.state = "resolved"
                    /\ q.body.result.outcome \in Outcomes
                    /\ q.value = TaskResponse(q).result.outcome
                    /\ tasks'[q.arg.id] = "consumed"
               /\ tasks[q.arg.id] \in {"none", "consumed"} =>
                    q.state = "rejected" /\ q.error = "TaskNotFoundError"
    ]_vars

\* a task was submitted, finished and fetched, and a later fetch of it was
\* rejected with TaskNotFoundError
C5_Witness ==
  \E r \in Reqs :
    /\ r.op = "queryTaskResult" /\ r.by = "backend"
    /\ tasks[r.arg.id] = "consumed" /\ r.error = "TaskNotFoundError"

\* C6: a login answered 300 never resolves and never rejects with ApiError; with
\* the structured conflict payload it rejects with SyncConflictError that carries
\* the envelope's message and the parsed (camelCase) result.
C6_Login300IsSyncConflict ==
  \A r \in Reqs :
    r.op = "login" /\ r.status = 300 =>
      /\ r.state = "rejected" /\ r.error # "ApiError"
      /\ r.body.result = WireSyncConflict =>
           /\ r.error = "SyncConflictError"
           /\ r.value = [localSize |-> 1, remoteSize |-> 2]
           /\ r.message = r.body.message

\* a login answered 300 with the conflict payload
C6_Witness ==
  \E r \in Reqs :
    /\ r.op = "login" /\ r.status = 300
    /\ r.body = Envelope(WireSyncConflict, "conflict")
    /\ r.error = "SyncConflictError" /\ r.message = "conflict"

\* C11 (as claimed): when cancel() replaces the source, every request issued before
\* and not yet completed is rejected with the cancellation error, in flight or
\* still queued before its interceptor (none stays pending, and all but the logout
\* that ran cancel() carry the error); a request is rejected with the cancellation
\* error only in such a step, and none that carries the new token ever is.
C11_CancelRejectsQueuedAndInFlight ==
  [][ /\ signal' # signal =>
           /\ \A q \in Reqs' : Settled(q)
           /\ CancelledIn(reqs') = CancelledIn(reqs) + BagCardinality(reqs) - 1
           /\ \A r \in Reqs :
                r.state = "queued" => CopiesIn(r, reqs') = 0
      /\ \A q \in Reqs' :
           q.error = "Cancel" /\ NewlySettled(q) => signal' # signal
      /\ \A q \in Reqs' : q.token = signal' => q.error # "Cancel"
    ]_vars

\* C12: whatever transport a request was made on (the constructor's or one made by
\* setup) and whatever cancel token the caller passed, the request leaves its
\* interceptor in flight with the token of the source that is active in that step;
\* a dispatched request never carries the caller's token; and a request is rejected
\* with the cancellation error only in a step that replaces the source, which
\* leaves no request in flight with the same token (no request is cancelled alone).
C12_InterceptorSetsActiveToken ==
  [][ /\ \A r \in Reqs :
           r.state = "queued" /\ CopiesIn(r, reqs') < CopiesIn(r, reqs) =>
             LET q == [r EXCEPT !.token = signal, !.state = "inflight"]
             IN  CopiesIn(q, reqs') = CopiesIn(q, reqs) + 1
      /\ \A q \in Reqs' : q.state # "queued" => q.token \in 1..signal'
      /\ \A q \in Reqs' :
           q.error = "Cancel" /\ NewlySettled(q)
             => signal' # signal /\ InFlightWith(reqs', q.token) = 0
    ]_vars

\* a call made with a token of the caller's own through a transport that setup
\* created, after a logout had replaced the first source, has completed carrying
\* the token of the second source
C12_Witness ==
  \E r \in Reqs :
    /\ r.given = OwnToken /\ r.axios > 1
    /\ r.state = "resolved" /\ r.token = 2 /\ 1 \in cancelled

\* the two requests differ in the value of async_query and in nothing else
OnlyFlagDiffers(sync, async) ==
  /\ sync.data.async_query = FALSE /\ async.data.async_query = TRUE
  /\ async = [sync EXCEPT !.data.async_query = TRUE]

SameEndpoint(sync, async) ==
  /\ sync.method = async.method /\ sync.url = async.url
  /\ sync.validateStatus = async.validateStatus
  /\ sync.transformResponse = async.transformResponse

\* C13 (as claimed): the requests of eth2Stats and eth2StatsTask for the same
\* payload, and those of fetchKrakenStakingEvents and refreshKrakenStaking, have
\* the same method, path, validator and body fields and differ only in the value
\* of async_query.
C13_OnlyAsyncFlagDiffers ==
  \A s, a \in Reqs :
    /\ s.op = "eth2Stats" /\ a.op = "eth2StatsTask" /\ s.arg = a.arg
         => OnlyFlagDiffers(s.config, a.config)
    /\ s.op = "fetchKrakenStakingEvents" /\ a.op = "refreshKrakenStaking"
         => /\ SameEndpoint(s.config, a.config)
            /\ DOMAIN s.config.data = DOMAIN a.config.data
            /\ s.config.data.async_query = FALSE /\ a.config.data.async_query = TRUE

\* C13 (amended): the ETH2 pair differs only in async_query; the Kraken pair has
\* the same method, path and validator and opposite flags, but the synchronous
\* request carries the caller's pagination and only_cache = true besides, and the
\* asynchronous one the empty pagination.
C13_SharedImplementationShaping ==
  \A s, a \in Reqs :
    /\ s.op = "eth2Stats" /\ a.op = "eth2StatsTask" /\ s.arg = a.arg
         => OnlyFlagDiffers(s.config, a.config)
    /\ s.op = "fetchKrakenStakingEvents" /\ a.op = "refreshKrakenStaking"
         => /\ SameEndpoint(s.config, a.config)
            /\ DOMAIN s.config.data = DOMAIN a.config.data \cup {"only_cache"}
            /\ "only_cache" \notin DOMAIN a.config.data
            /\ s.config.data.only_cache = TRUE
            /\ s.config.data.async_query = FALSE /\ a.config.data.async_query = TRUE
            /\ s.config.data.offset = s.arg.offset
            /\ a.config.data.offset = emptyPagination.offset
            /\ s.config.data.order_by_attribute = SnakeKey(s.arg.orderByAttribute)

\* both ETH2 variants were called with the same payload, ordered by eventType (sent
\* as event_type), and the Kraken refresh was called as well
C13_Witness ==
  \E s, a, k \in Reqs :
    /\ s.op = "eth2Stats" /\ a.op = "eth2StatsTask" /\ s.arg = a.arg
    /\ s.arg.orderByAttribute = "eventType"
    /\ a.config.data.order_by_attribute = "event_type"
    /\ k.op = "refreshKrakenStaking"

\* the domain schema of each synchronous operation
SchemaOk(op, v) ==
  CASE op = "eth2Stats"                -> Eth2DailyStatsOk(v)
    [] op = "fetchKrakenStakingEvents" -> KrakenStakingEventsOk(v)
    [] op = "queryNetvalueData"        -> DOMAIN v = {"times", "data"}
    [] op = "btcAccounts"              -> DOMAIN v = {"standalone", "xpubs"}

SyncOps == {"eth2Stats", "fetchKrakenStakingEvents", "queryNetvalueData", "btcAccounts"}

AsyncOps == {"eth2StatsTask", "refreshKrakenStaking"}

\* an answer with status 200 whose envelope holds a result
Unwrapped(r) == r.by = "backend" /\ r.status = 200 /\ Truthy(r.body.result)

\* C14 (as claimed): a synchronous operation whose answer unwraps resolves with the
\* value when the value has the shape of its domain schema and rejects with the
\* schema-validation error when it has not; an asynchronous operation resolves
\* with the unwrapped value whatever its shape.
C14_SyncParsesAsyncDoesNot ==
  \A r \in Reqs :
    Unwrapped(r) =>
      /\ r.op \in SyncOps =>
           IF SchemaOk(r.op, basicAxiosTransformer(r.body).result)
             THEN r.state = "resolved"
             ELSE r.state = "rejected" /\ r.error = "ZodError"
      /\ r.op \in AsyncOps =>
           r.state = "resolved" /\ r.value = basicAxiosTransformer(r.body).result

\* the transport call of the request failed: no connection, no answer in time,
\* cancelled, or a status that its validator refuses
TransportFailed(r) ==
  \/ r.by \in {"network", "timeout", "cancel"}
  \/ r.by = "backend" /\ ~Accepts(r.op, r.status)

\* the error the transport call threw
TransportError(r) ==
  CASE r.by = "network" -> Rejected("AxiosError", "Network Error", NoValue)
    [] r.by = "timeout" -> Rejected("AxiosError", "timeout of 30000ms exceeded", NoValue)
    [] r.by = "cancel"  -> CancelError
    [] OTHER            -> StatusRejected(r.status)

\* the operations that unwrap the envelope of every accepted answer
UnwrappingOps == SyncOps \cup AsyncOps \cup {"users"}

\* the operation rejects with the error of the step that failed
RejectsWithTheError(r) ==
  /\ TransportFailed(r) =>
       /\ r.state = "rejected"
       /\ r.error = TransportError(r).error /\ r.message = TransportError(r).message
  /\ r.by = "backend" /\ Accepts(r.op, r.status) /\ r.op \in UnwrappingOps =>
       /\ ~Truthy(r.body.result) =>
            r.state = "rejected" /\ r.error = "ApiError" /\ r.message = r.body.message
       /\ /\ Truthy(r.body.result) /\ r.op \in {"eth2Stats", "fetchKrakenStakingEvents"}
          /\ ~SchemaOk(r.op, basicAxiosTransformer(r.body).result)
          => r.state = "rejected" /\ r.error = "ZodError"

\* C15 (as claimed): in every operation a failure of the transport, of the
\* unwrapper or of the schema parser rejects the operation's promise with that
\* error; no operation resolves with a value instead.
C15_NoOperationDowngradesErrors ==
  \A r \in Reqs : Settled(r) => RejectsWithTheError(r)

\* C15 (amended): so it is for every operation but downloadCSV, which resolves in
\* every case: when its transport call fails (no connection, no answer in time,
\* cancelled, or a refused status) with { success: false, message } where the
\* message is that of the error, and when the answer is accepted with success
\* according to whether its status is 200.
C15_OnlyDownloadCsvDowngrades ==
  \A r \in Reqs :
    Settled(r) =>
      IF r.op = "downloadCSV"
        THEN /\ r.state = "resolved"
             /\ TransportFailed(r) =>
                  r.value = [success |-> False, message |-> TransportError(r).message]
             /\ r.by = "backend" /\ Accepts(r.op, r.status) =>
                  r.value.success = (IF r.status = 200 THEN True ELSE False)
        ELSE RejectsWithTheError(r)

\* a logout has succeeded and cancelled a downloadCSV and an eth2Stats in flight:
\* the one resolved with the message of the cancellation, the other rejected
\* with the cancellation error
C15_Witness ==
  \E d, e \in Reqs :
    /\ d.op = "downloadCSV" /\ d.by = "cancel" /\ d.state = "resolved"
    /\ d.value = [success |-> False, message |-> "cancelling all pending requests"]
    /\ e.op = "eth2Stats" /\ e.by = "cancel"
    /\ e.state = "rejected" /\ e.error = "Cancel"

\* the error kinds of the taxonomy: transport, protocol, task not found, no
\* result, sync conflict, schema validation, cancellation
ErrorKinds == {"AxiosError", "ApiError", "TaskNotFoundError", "Error",
               "SyncConflictError", "ZodError", "Cancel"}

IsRawResponse(v) == {"status", "data"} \subseteq DOMAIN v

\* C16 (as claimed): an operation that resolves hands its caller a domain value,
\* never the HTTP response object (status and body), and one that rejects does so
\* with an error of the taxonomy.
C16_NeverTheRawResponse ==
  \A r \in Reqs :
    /\ r.state = "resolved" => ~IsRawResponse(r.value)
    /\ r.state = "rejected" => r.error \in ErrorKinds

\* the requests that are queued or in flight
InTransit(bag) ==
  BagCardinality([r \in {x \in BagToSet(bag) : ~Settled(x)} |-> bag[r]])

\* C17: a step issues at most one request; a step in which an operation completes
\* issues none; and when an operation fails (network error, refused status,
\* ApiError, TaskNotFoundError, cancellation) it does so for good: the number of
\* requests queued or in flight goes down, none is sent again.
C17_NoRetry ==
  [][ /\ BagCardinality(reqs') <= BagCardinality(reqs) + 1
      /\ (\E q \in Reqs' : NewlySettled(q)) =>
           /\ BagCardinality(reqs') = BagCardinality(reqs)
           /\ \A x \in Reqs' :
                ~Settled(x) => CopiesIn(x, reqs') <= CopiesIn(x, reqs)
      /\ \A q \in Reqs' :
           NewlySettled(q) /\ q.state = "rejected" =>
             /\ q.error \in ErrorKinds
             /\ InTransit(reqs') < InTransit(reqs)
    ]_vars

\* a fetch of an unknown task was rejected with TaskNotFoundError and left no
\* other request behind
C17_Witness ==
  \E r \in Reqs :
    /\ r.op = "queryTaskResult" /\ r.status = 404 /\ r.error = "TaskNotFoundError"
    /\ BagCardinality(reqs) = 1

\* C18: an answer whose status the call's validator refuses fails the call with
\* the transport's error for that status, whatever the body holds: the call does
\* not resolve, no error of the unwrapper or of a status-specific branch comes out
\* of it, and a logout so refused has not run cancel(). Every resolved call and
\* every error raised after the transport (ApiError, SyncConflictError,
\* TaskNotFoundError, 'No result', schema validation) has an accepted status.
C18_UnwrapOnlyAcceptedStatus ==
  \A r \in Reqs :
    r.by \in {"backend", "fault"} =>
      /\ ~Accepts(r.op, r.status) =>
           /\ r.state = "rejected" /\ r.error = "AxiosError"
           /\ r.value = [status |-> r.status]
           /\ r.op = "logout" => r.token = signal /\ signal \notin cancelled
      /\ r.state = "resolved" => Accepts(r.op, r.status)
      /\ r.error \in {"ApiError", "SyncConflictError", "TaskNotFoundError", "Error",
                      "ZodError"} => Accepts(r.op, r.status)

\* a login answered 500 with an envelope without result failed with the
\* transport's error, not with the unwrapper's ApiError
C18_Witness ==
  \E r \in Reqs :
    /\ r.op = "login" /\ r.status = 500 /\ r.body = Failure
    /\ r.state = "rejected" /\ r.error = "AxiosError"

\* the operations whose whole continuation is .then(handleResponse)
HandleResponseOps ==
  {"queryNetvalueData", "btcAccounts", "eth2StatsTask", "refreshKrakenStaking"}

\* the response data handleResponse is given: the body after transformResponse
ResponseData(r) ==
  IF r.op = "queryNetvalueData" THEN defaultTransformResponse(r.body)
  ELSE basicAxiosTransformer(r.body)

\* C19: on an answer with an accepted status, an operation that returns what
\* handleResponse gives resolves with the envelope's result unchanged when the
\* result is present (a number, an object; null and false count as absent), and
\* otherwise rejects with ApiError carrying the envelope's message and the HTTP
\* status of the answer; users() rejects in the same way.
C19_EnvelopeUnwrap ==
  \A r \in Reqs :
    r.by = "backend" /\ Accepts(r.op, r.status) =>
      /\ r.op \in HandleResponseOps =>
           IF Truthy(ResponseData(r).result)
             THEN r.state = "resolved" /\ r.value = ResponseData(r).result
             ELSE /\ r.state = "rejected" /\ r.error = "ApiError"
                  /\ r.message = ResponseData(r).message
                  /\ r.value = [status |-> r.status]
      /\ r.op = "users" /\ ~Truthy(r.body.result) =>
           /\ r.state = "rejected" /\ r.error = "ApiError"
           /\ r.message = r.body.message /\ r.value = [status |-> r.status]

\* {result: 5, message: ''} came out as 5
C19_Witness ==
  \E r \in Reqs :
    /\ r.op = "queryNetvalueData" /\ r.status = 200
    /\ r.body = Envelope(Number(5), "")
    /\ r.state = "resolved" /\ r.value = Number(5)

\* C20: with numeric coercion off, a camelCase domain object that went to the wire
\* and back is the object it was (nested mappings and arrays included), and
\* parsing an object that is camelCase already returns it unchanged.
C20_RoundTrip ==
  (parsed # NoValue /\ ~parsed.numericKeys.coerce) => parsed.value = obj

\* a two-word key inside an array went to the wire with another spelling and
\* came back, without coercion
C20_Witness ==
  /\ parsed # NoValue /\ parsed.of = "wire" /\ ~parsed.numericKeys.coerce
  /\ wire # obj
  /\ \E k \in DOMAIN obj.object :
       /\ IsArray(obj.object[k])
       /\ \E j \in DOMAIN obj.object[k].array[1].object : j # toWireKey(j)

\* C21: the result of a task is parsed with the caller's numericKeys: a list
\* coerces exactly its keys, null coerces nothing, and a call without numericKeys
\* coerces the default names; the keys come back camelCase in all three cases.
C21_NumericKeysThreaded ==
  \A r \in Reqs :
    TaskFetched(r) /\ r.by = "backend" =>
      /\ r.state = "resolved"
      /\ r.value = setupTransformer(r.arg.numericKeys, r.body).result.outcome

\* C22: after the constructor, in whatever environment, and after every sequence
\* of setup(url) calls, this.axios is one transport, the one created last, whose
\* base URL is serverUrl followed by "/api/1/" (serverUrl being the default
\* server URL of the environment as long as setup has not run), the request
\* interceptor is installed on it, and each of the seven getters returns an
\* object bound to it.
C22_OneCurrentTransport ==
  /\ axios = Len(transports)
  /\ Len(transports) = 1 => serverUrl \in {defaultServerUrl(env) : env \in Environments}
  /\ transports[axios].baseURL = serverUrl \o "/api/1/"
  /\ transports[axios].interceptor
  /\ DOMAIN apis = ApiNames
  /\ \A name \in ApiNames : apis[name] = axios

\* the facade was constructed with the pathname of the page as its server, and
\* two setup calls have moved it to the local backend and then to another server
\* while the caller still keeps an object of the transport in between
C22_Witness ==
  /\ Len(transports) = 3
  /\ transports[1].baseURL = "/a/api/1/"
  /\ transports[2].baseURL = "http://localhost:4242/api/1/"
  /\ serverUrl = ""
  /\ held = 2
  /\ transports[held].baseURL # transports[axios].baseURL

\* C23: a step that changes the transport, serverUrl or the sub-resource objects
\* is a setup(url); calling an operation, the interceptor, an answer (the cancel()
\* of a successful logout included), a network failure and the caller's reaction
\* leave all of them as they were.
C23_OnlySetupReplacesTransport ==
  [][ /\ facade' # facade => \E url \in Urls : Setup(url)
      /\ (reqs' # reqs \/ signal' # signal \/ cancelled' # cancelled)
           => facade' = facade
    ]_vars

\* after a setup(), a logout made on the new transport has succeeded and run
\* cancel(), and the transport is still the one setup() created
C23_Witness ==
  /\ Len(transports) > 1 /\ axios = Len(transports)
  /\ \E l \in Reqs :
       /\ l.op = "logout" /\ l.state = "resolved" /\ l.axios = axios
       /\ l.token \in cancelled /\ signal # l.token
  /\ \A name \in ApiNames : apis[name] = axios

\* C24: in the step in which a logout fails of its own (network failure or timeout,
\* a status its validator rejects, an accepted status other than 409 with no
\* result), cancel() does not run: the active source stays and is not cancelled,
\* no request is rejected with the cancellation error, and every other request
\* in flight stays in flight.
C24_FailedLogoutDoesNotCancel ==
  [][ \A q \in Reqs' :
        q.op = "logout" /\ NewlySettled(q) /\ q.state = "rejected" /\ q.error # "Cancel"
        => /\ signal' = signal
           /\ cancelled' = cancelled
           /\ CancelledIn(reqs') = CancelledIn(reqs)
           /\ InFlight(reqs') = InFlight(reqs) - 1
           /\ \A x \in Reqs :
                x.state = "inflight" /\ x.op # "logout"
                  => CopiesIn(x, reqs') = CopiesIn(x, reqs)
    ]_vars

\* a logout answered with an accepted status and no result has failed, and a
\* request that was in flight with it is in flight still, with the active token
C24_Witness ==
  /\ signal \notin cancelled
  /\ \E l \in Reqs :
       /\ l.op = "logout" /\ l.state = "rejected" /\ l.error = "ApiError"
       /\ validAccountOperationStatus(l.status) /\ l.status # 409
       /\ \E x \in Reqs :
            x.op # "logout" /\ x.state = "inflight" /\ x.token = signal
            /\ x.token = l.token

\* C25: between operations the active cancellation source is one that has not
\* been cancelled; a source is cancelled only while it is the active one and is
\* replaced in that same step (so each is cancelled at most once), the set of
\* cancelled sources only grows, and the source that becomes active is never one
\* of the cancelled.
C25_ActiveSourceNeverCancelled ==
  [][ /\ signal \notin cancelled /\ signal' \notin cancelled'
      /\ cancelled \subseteq cancelled'
      /\ \A s \in cancelled' \ cancelled : s = signal /\ signal' # s
      /\ signal' # signal => signal' \notin cancelled /\ signal \in cancelled'
    ]_vars

\* two logouts have succeeded, one of them after a setup(): two sources are
\* cancelled and the active one is a third
C25_Witness ==
  /\ Len(transports) > 1
  /\ Cardinality(cancelled) >= 2
  /\ signal \notin cancelled
  /\ \E l \in Reqs : l.op = "logout" /\ l.state = "resolved" /\ l.axios = axios

====
